---- MODULE Spec2Model ----
(***************************************************************************)
(* Model of the aggregation core of web-app/backend/services/             *)
(* data_service.py (DataService): the filter of get_transactions and the  *)
(* aggregates computed from the filtered record list.                      *)
(*                                                                         *)
(* Amounts are integers in cents (1500.00 is 150000).  A quotient is kept  *)
(* exact as a pair <<numerator, denominator>> in lowest terms.  A string   *)
(* on which the code calls lower() or tests containment is a sequence of   *)
(* one-character strings; a string the code only compares for equality is  *)
(* a TLA+ string.                                                          *)
(* A dict is the sequence of its entries in insertion order.               *)
(***************************************************************************)
EXTENDS Integers, Sequences, FiniteSets, TLC

\* Longest record list decoded from the CSV file.
MaxLen == 3
MbaLen == 6

----------------------------------------------------------------------------
\* Built-ins of the language the code relies on.

\* str.lower() on one character.
LowerChar(c) ==
    LET m == ("A" :> "a") @@ ("B" :> "b") @@ ("C" :> "c") @@ ("D" :> "d") @@
             ("E" :> "e") @@ ("F" :> "f") @@ ("G" :> "g") @@ ("H" :> "h") @@
             ("I" :> "i") @@ ("J" :> "j") @@ ("K" :> "k") @@ ("L" :> "l") @@
             ("M" :> "m") @@ ("N" :> "n") @@ ("O" :> "o") @@ ("P" :> "p") @@
             ("Q" :> "q") @@ ("R" :> "r") @@ ("S" :> "s") @@ ("T" :> "t") @@
             ("U" :> "u") @@ ("V" :> "v") @@ ("W" :> "w") @@ ("X" :> "x") @@
             ("Y" :> "y") @@ ("Z" :> "z")
    IN  IF c \in DOMAIN m THEN m[c] ELSE c

\* str.lower()
Lower(s) == [i \in 1..Len(s) |-> LowerChar(s[i])]

\* `sub in s` on strings
Contains(sub, s) ==
    \E i \in 0..(Len(s) - Len(sub)) : SubSeq(s, i + 1, i + Len(sub)) = sub

\* `x in xs` on a list
InList(x, xs) == \E i \in 1..Len(xs) : xs[i] = x

\* abs()
Abs(n) == IF n < 0 THEN -n ELSE n

\* sum() of a list of numbers
RECURSIVE Sum(_)
Sum(ns) == IF ns = <<>> THEN 0 ELSE Sum(SubSeq(ns, 1, Len(ns) - 1)) + ns[Len(ns)]

\* sum(t.amount for t in ts)
SumAmount(ts) == Sum([i \in 1..Len(ts) |-> ts[i].amount])

\* Greatest common divisor of two naturals, not both 0.
RECURSIVE GCD(_, _)
GCD(a, b) == IF b = 0 THEN a ELSE GCD(b, a % b)

\* a / b for b # 0, exact: the quotient in lowest terms, denominator positive.
Div(a, b) ==
    LET g == GCD(Abs(a), Abs(b))
        sign == IF b < 0 THEN -1 ELSE 1
    IN  <<sign * (a \div g), sign * (b \div g)>>

\* datetime comparison a <= b
DateLE(a, b) ==
    \/ a.year < b.year
    \/ a.year = b.year /\ a.month < b.month
    \/ a.year = b.year /\ a.month = b.month /\ a.day <= b.day

\* One decimal digit as a character.
Digit(n) == <<"0", "1", "2", "3", "4", "5", "6", "7", "8", "9">>[n + 1]

\* date.strftime("%Y-%m"): four year digits, "-", two month digits
MonthKey(d) ==
    << Digit((d.year \div 1000) % 10), Digit((d.year \div 100) % 10),
       Digit((d.year \div 10) % 10), Digit(d.year % 10), "-",
       Digit(d.month \div 10), Digit(d.month % 10) >>

\* Code point of a character of a month key.
CharOrd(c) ==
    LET m == ("-" :> 45) @@ ("0" :> 48) @@ ("1" :> 49) @@ ("2" :> 50) @@
             ("3" :> 51) @@ ("4" :> 52) @@ ("5" :> 53) @@ ("6" :> 54) @@
             ("7" :> 55) @@ ("8" :> 56) @@ ("9" :> 57)
    IN  m[c]

\* a < b on strings: the first differing character decides, a proper prefix
\* is smaller.
StrLess(a, b) ==
    \/ \E i \in 1..Len(a) :
          /\ i <= Len(b)
          /\ \A j \in 1..(i - 1) : a[j] = b[j]
          /\ CharOrd(a[i]) < CharOrd(b[i])
    \/ /\ Len(a) < Len(b)
       /\ \A j \in 1..Len(a) : a[j] = b[j]

----------------------------------------------------------------------------
\* Transaction and TransactionQuery values.

REGULAR == "regular"
INCOME == "income"
INTERNAL_TRANSFER == "internal_transfer"

\* merchant=None
NoMerchant == ""

Date(y, m, d) == [year |-> y, month |-> m, day |-> d]

Txn(i, a, desc, c, dt, m, tg, ty, ex) ==
    [id |-> i, amount |-> a, description |-> desc, category |-> c, date |-> dt,
     merchant |-> m, tags |-> tg, transaction_type |-> ty, excluded |-> ex]

\* Transaction.absolute_amount
AbsoluteAmount(t) == Abs(t.amount)

\* Strings used as tags, tag arguments and descriptions.
s_trip == <<"t", "r", "i", "p">>
s_TRIP == <<"T", "r", "i", "p">>
s_kellogg == <<"k", "e", "l", "l", "o", "g", "g">>
s_general == <<"g", "e", "n", "e", "r", "a", "l", "_", "a", "c", "t", "i", "v", "i", "t", "i", "e", "s">>
s_fall2024 == <<"f", "a", "l", "l", "2", "0", "2", "4">>
s_tuition == <<"t", "u", "i", "t", "i", "o", "n">>
s_textbook == <<"t", "e", "x", "t", "b", "o", "o", "k">>
s_strategy == <<"s", "t", "r", "a", "t", "e", "g", "y">>
s_networking == <<"n", "e", "t", "w", "o", "r", "k", "i", "n", "g">>
s_finance == <<"f", "i", "n", "a", "n", "c", "e">>
s_nonexistent == <<"n", "o", "n", "e">>
s_Lunch == <<"L", "u", "n", "c", "h">>
s_lunch == <<"l", "u", "n", "c", "h">>
s_UNCH == <<"U", "N", "C", "H">>
s_Taxi == <<"T", "a", "x", "i">>
s_Refund == <<"R", "e", "f", "u", "n", "d">>
s_Salary == <<"S", "a", "l", "a", "r", "y">>
s_Move == <<"M", "o", "v", "e">>
s_Dinner == <<"D", "i", "n", "n", "e", "r">>
s_FallTuition ==
    <<"F", "a", "l", "l", " ", "2", "0", "2", "4", " ", "T", "u", "i", "t", "i", "o", "n">>
s_Textbook ==
    <<"S", "t", "r", "a", "t", "e", "g", "i", "c", " ", "M", "a", "n", "a", "g", "e", "m", "e", "n", "t",
      " ", "T", "e", "x", "t", "b", "o", "o", "k">>
s_Networking ==
    <<"N", "e", "t", "w", "o", "r", "k", "i", "n", "g", " ", "E", "v", "e", "n", "t", " ", "-", " ",
      "F", "i", "n", "a", "n", "c", "e", " ", "C", "l", "u", "b">>

\* Rows a CSV file may hold, as _parse_csv_row decodes them (tags are
\* lower-cased by _parse_tags, a missing merchant is None, the amount keeps
\* its sign, an unparseable amount is 0).
u1 == Txn("u1", 4000, s_Lunch, "food", Date(2024, 9, 5), "A", <<s_trip>>, REGULAR, FALSE)
u2 == Txn("u2", 6000, s_Taxi, "transportation", Date(2024, 10, 2), "B",
          <<s_kellogg, s_trip>>, REGULAR, FALSE)
u3 == Txn("u3", -4000, s_Refund, "food", Date(2024, 9, 20), NoMerchant, <<s_trip>>, REGULAR, FALSE)
u4 == Txn("u4", 150000, s_FallTuition, "tuition", Date(2024, 8, 15), "University",
          <<s_fall2024>>, REGULAR, FALSE)
u5 == Txn("u5", 9000, s_Textbook, "books_supplies", Date(2024, 8, 20), "University",
          <<s_kellogg, s_textbook>>, REGULAR, FALSE)
u6 == Txn("u6", 200000, s_Salary, "food", Date(2024, 9, 30), "Employer", <<>>, INCOME, FALSE)
u7 == Txn("u7", 50000, s_Move, "food", Date(2024, 9, 30), NoMerchant, <<s_kellogg>>,
          INTERNAL_TRANSFER, FALSE)
u8 == Txn("u8", 7000, s_lunch, "food", Date(2024, 9, 5), "A", <<s_trip>>, REGULAR, TRUE)
u9 == Txn("u9", 0, s_Dinner, "food", Date(2023, 12, 31), "B", <<s_trip, s_trip>>, REGULAR, FALSE)
u10 == Txn("u10", 3000, s_Dinner, "food", Date(2024, 10, 2), "A", <<s_kellogg>>, REGULAR, FALSE)
u11 == Txn("u11", 2000, s_Dinner, "food", Date(2024, 10, 3), "A",
           <<s_kellogg, s_general>>, REGULAR, FALSE)
u12 == Txn("u12", 1000, s_Dinner, "transportation", Date(2024, 11, 1), "B",
           <<s_trip, s_kellogg>>, REGULAR, FALSE)

\* Marker-tagged rows of 500.00 and of 0.00 in one tag group, for the
\* thresholds of the insight priorities.
m1 == Txn("m1", 50000, s_Networking, "networking", Date(2024, 9, 5), "Finance Club",
          <<s_kellogg, s_networking>>, REGULAR, FALSE)
m2 == Txn("m2", 0, s_Networking, "networking", Date(2024, 10, 2), "Finance Club",
          <<s_kellogg, s_networking>>, REGULAR, FALSE)

\* The files are drawn from three families of rows: rows that differ in what
\* the filter looks at, rows that differ in type, category, month and sign,
\* and rows that differ in tag, category and merchant.
FilterRows == {u1, u2, u4, u6, u8, u9}
SummaryRows == {u3, u4, u5, u6, u7}
OverlapRows == {u1, u2, u3, u10, u11, u12}
MbaRows == {m1, m2}

\* The three transactions _load_transaction_data returns when no CSV data is
\* found.
SampleData ==
    << Txn("1", 150000, s_FallTuition, "tuition", Date(2024, 8, 15), "University",
           <<s_tuition, s_fall2024>>, REGULAR, FALSE),
       Txn("2", 8999, s_Textbook, "books_supplies", Date(2024, 8, 20), "University Bookstore",
           <<s_textbook, s_strategy>>, REGULAR, FALSE),
       Txn("3", 4500, s_Networking, "networking", Date(2024, 9, 5), "Finance Club",
           <<s_networking, s_finance>>, REGULAR, FALSE) >>

\* TransactionQuery().  An optional scalar is <<>> (None) or <<value>>; an
\* optional list or string is the list or string itself, None being empty
\* (both are falsy).
DefaultQuery ==
    [include_excluded |-> FALSE, start_date |-> <<>>, end_date |-> <<>>,
     categories |-> <<>>, transaction_types |-> <<>>, min_amount |-> <<>>,
     max_amount |-> <<>>, search_text |-> <<>>, tags |-> <<>>]

\* The queries the operations are called with.
Queries ==
    { DefaultQuery,
      [DefaultQuery EXCEPT !.include_excluded = TRUE],
      [DefaultQuery EXCEPT !.start_date = <<Date(2024, 9, 5)>>],
      [DefaultQuery EXCEPT !.start_date = <<Date(2024, 8, 20)>>,
                           !.end_date = <<Date(2024, 10, 2)>>],
      [DefaultQuery EXCEPT !.categories = <<"food", "tuition">>],
      [DefaultQuery EXCEPT !.transaction_types = <<REGULAR>>],
      [DefaultQuery EXCEPT !.transaction_types = <<INCOME, INTERNAL_TRANSFER>>],
      [DefaultQuery EXCEPT !.min_amount = <<4000>>, !.max_amount = <<9000>>],
      [DefaultQuery EXCEPT !.min_amount = <<0>>, !.max_amount = <<0>>],
      [DefaultQuery EXCEPT !.search_text = s_UNCH],
      [DefaultQuery EXCEPT !.tags = <<s_kellogg, s_fall2024>>],
      [DefaultQuery EXCEPT !.categories = <<"none">>, !.include_excluded = TRUE] }

----------------------------------------------------------------------------
\* State.

VARIABLES
    csv,            \* the rows of the transactions.csv file, decoded
    transactions,   \* DataService.transactions
    categories,     \* DataService.categories
    op,             \* the operation called last
    args,           \* its arguments
    result,         \* what it returned (or the error it raised)
    served          \* history: a call has returned on this DataService before

vars == <<csv, transactions, categories, op, args, result, served>>

\* Record lists of at most n rows.
RECURSIVE SeqsUpTo(_, _)
SeqsUpTo(n, rows) ==
    IF n = 0 THEN {<<>>}
    ELSE LET shorter == SeqsUpTo(n - 1, rows)
         IN  shorter \cup {Append(s, r) : s \in {x \in shorter : Len(x) = n - 1}, r \in rows}

\* A number a caller reads from a field that otherwise holds a quotient.
Num(n) == <<n, 1>>

----------------------------------------------------------------------------
\* DataService._load_transaction_data
LoadTransactionData(rows) == IF rows = <<>> THEN SampleData ELSE rows

\* Mutant of ExcludedFilter: the excluded records are removed from the list
\* while a `for` loop iterates over it, so the record after a removed one is
\* skipped (list.remove drops the first equal element).
RECURSIVE RemoveWhileIterating(_, _)
RemoveWhileIterating(ts, i) ==
    IF i > Len(ts) THEN ts
    ELSE IF ts[i].excluded
         THEN LET j == CHOOSE j \in 1..i : ts[j] = ts[i] /\ \A k \in 1..(j - 1) : ts[k] # ts[i]
              IN  RemoveWhileIterating(SubSeq(ts, 1, j - 1) \o SubSeq(ts, j + 1, Len(ts)), i + 1)
         ELSE RemoveWhileIterating(ts, i + 1)

ExcludedFilterInPlace(ts, filters) ==
    IF ~filters.include_excluded THEN RemoveWhileIterating(ts, 1) ELSE ts

\* The steps of the filter of DataService.get_transactions, one per `if`.
\* `if filters.x:` takes None, 0, "" and [] for absent.
ExcludedFilter(ts, filters) ==
    LET NotExcluded(t) == ~t.excluded
    IN  IF ~filters.include_excluded THEN SelectSeq(ts, NotExcluded) ELSE ts

StartDateFilter(ts, filters) ==
    LET FromStart(t) == DateLE(filters.start_date[1], t.date)
    IN  IF filters.start_date # <<>> THEN SelectSeq(ts, FromStart) ELSE ts

EndDateFilter(ts, filters) ==
    LET ToEnd(t) == DateLE(t.date, filters.end_date[1])
    IN  IF filters.end_date # <<>> THEN SelectSeq(ts, ToEnd) ELSE ts

CategoryFilter(ts, filters) ==
    LET InCategories(t) == InList(t.category, filters.categories)
    IN  IF filters.categories # <<>> THEN SelectSeq(ts, InCategories) ELSE ts

TypeFilter(ts, filters) ==
    LET InTypes(t) == InList(t.transaction_type, filters.transaction_types)
    IN  IF filters.transaction_types # <<>> THEN SelectSeq(ts, InTypes) ELSE ts

MinAmountFilter(ts, filters) ==
    LET AtLeastMin(t) == AbsoluteAmount(t) >= filters.min_amount[1]
    IN  IF filters.min_amount # <<>> /\ filters.min_amount[1] # 0
        THEN SelectSeq(ts, AtLeastMin) ELSE ts

MaxAmountFilter(ts, filters) ==
    LET AtMostMax(t) == AbsoluteAmount(t) <= filters.max_amount[1]
    IN  IF filters.max_amount # <<>> /\ filters.max_amount[1] # 0
        THEN SelectSeq(ts, AtMostMax) ELSE ts

\* Mutant of SearchFilter: the text is compared without lower().
SearchFilterCaseSensitive(ts, filters) ==
    LET HasText(t) == Contains(filters.search_text, t.description)
    IN  IF filters.search_text # <<>> THEN SelectSeq(ts, HasText) ELSE ts

SearchFilter(ts, filters) ==
    LET HasText(t) == Contains(Lower(filters.search_text), Lower(t.description))
    IN  IF filters.search_text # <<>> THEN SelectSeq(ts, HasText) ELSE ts

\* Mutant of TagFilter: the comprehension iterates over the query's tags
\* first, [t for tag in filters.tags for t in transactions if tag in t.tags].
RECURSIVE ByTag(_, _, _)
ByTag(ts, tags, n) ==
    LET Has(t) == InList(tags[n], t.tags)
    IN  IF n = 0 THEN <<>> ELSE ByTag(ts, tags, n - 1) \o SelectSeq(ts, Has)

TagFilterTagMajor(ts, filters) ==
    IF filters.tags # <<>> THEN ByTag(ts, filters.tags, Len(filters.tags)) ELSE ts

TagFilter(ts, filters) ==
    LET AnyTag(t) == \E i \in 1..Len(filters.tags) : InList(filters.tags[i], t.tags)
    IN  IF filters.tags # <<>> THEN SelectSeq(ts, AnyTag) ELSE ts

\* The filter of DataService.get_transactions, applied to a record list.
Filter(ts, filters) ==
    LET t1 == ExcludedFilter(ts, filters)
        t2 == StartDateFilter(t1, filters)
        t3 == EndDateFilter(t2, filters)
        t4 == CategoryFilter(t3, filters)
        t5 == TypeFilter(t4, filters)
        t6 == MinAmountFilter(t5, filters)
        t7 == MaxAmountFilter(t6, filters)
        t8 == SearchFilter(t7, filters)
    IN  TagFilter(t8, filters)

\* DataService.get_transactions: the value returned.
get_transactions(rows, filters) == Filter(LoadTransactionData(rows), filters)

\* [t for t in ts if t.transaction_type == ty]
OfType(ts, ty) ==
    LET Is(t) == t.transaction_type = ty
    IN  SelectSeq(ts, Is)

\* s[:-1]
Front(s) == SubSeq(s, 1, Len(s) - 1)

\* Mutant of Accumulate: net also subtracts the transfers.
AccumulateNetOfTransfers(e, t) ==
    LET e1 == IF t.transaction_type = REGULAR
                  THEN [e EXCEPT !.regular = @ + t.amount]
              ELSE IF t.transaction_type = INCOME
                  THEN [e EXCEPT !.income = @ + t.amount]
              ELSE IF t.transaction_type = INTERNAL_TRANSFER
                  THEN [e EXCEPT !.transfers = @ + t.amount]
              ELSE e
    IN  [e1 EXCEPT !.net = e1.regular - e1.income - e1.transfers]

\* Mutant of Accumulate: a transfer is added to the regular amount.
AccumulateTransferAsRegular(e, t) ==
    LET e1 == IF t.transaction_type = INCOME
                  THEN [e EXCEPT !.income = @ + t.amount]
              ELSE [e EXCEPT !.regular = @ + t.amount]
    IN  [e1 EXCEPT !.net = e1.regular - e1.income]

\* The accumulation step shared by the per-category and per-month loops:
\* add the amount to the field of the transaction's type, then recompute net.
Accumulate(e, t) ==
    LET e1 == IF t.transaction_type = REGULAR
                  THEN [e EXCEPT !.regular = @ + t.amount]
              ELSE IF t.transaction_type = INCOME
                  THEN [e EXCEPT !.income = @ + t.amount]
              ELSE IF t.transaction_type = INTERNAL_TRANSFER
                  THEN [e EXCEPT !.transfers = @ + t.amount]
              ELSE e
    IN  [e1 EXCEPT !.net = e1.regular - e1.income]

\* The category_breakdown loop of get_transaction_summary.
RECURSIVE CategoryBreakdown(_)
CategoryBreakdown(ts) ==
    IF ts = <<>> THEN <<>>
    ELSE LET prev == CategoryBreakdown(Front(ts))
             t == ts[Len(ts)]
             d == IF \E i \in 1..Len(prev) : prev[i].category = t.category
                  THEN prev
                  ELSE Append(prev, [category |-> t.category, regular |-> 0,
                                     income |-> 0, transfers |-> 0, net |-> 0])
             k == CHOOSE i \in 1..Len(d) : d[i].category = t.category
         IN  [d EXCEPT ![k] = Accumulate(d[k], t)]

\* The grouping loop of _calculate_monthly_trends: monthly_data.
RECURSIVE MonthlyData(_)
MonthlyData(ts) ==
    IF ts = <<>> THEN <<>>
    ELSE LET prev == MonthlyData(Front(ts))
             t == ts[Len(ts)]
             month_key == MonthKey(t.date)
             d == IF \E i \in 1..Len(prev) : prev[i].month = month_key
                  THEN prev
                  ELSE Append(prev, [month |-> month_key, regular |-> 0, income |-> 0,
                                     transfers |-> 0, net |-> 0, count |-> 0])
             k == CHOOSE i \in 1..Len(d) : d[i].month = month_key
             e == Accumulate(d[k], t)
         IN  [d EXCEPT ![k] = [e EXCEPT !.count = @ + 1]]

\* Mutant of SortedByMonth: the entries stay in dict (first-seen) order.
SortedByMonthUnsorted(d) == d

\* sorted(monthly_data.items()): ascending by month key (the keys of a dict
\* are distinct, so the key alone decides).
RECURSIVE SortedByMonth(_)
SortedByMonth(d) ==
    IF d = <<>> THEN <<>>
    ELSE LET prev == SortedByMonth(Front(d))
             x == d[Len(d)]
             k == Cardinality({i \in 1..Len(prev) : ~StrLess(x.month, prev[i].month)})
         IN  SubSeq(prev, 1, k) \o <<x>> \o SubSeq(prev, k + 1, Len(prev))

\* Mutant of calculate_monthly_trends: only the REGULAR transactions reach
\* the monthly groups.
calculate_monthly_trends_regular_only(ts) ==
    LET d == SortedByMonth(MonthlyData(OfType(ts, REGULAR)))
    IN  [i \in 1..Len(d) |-> [month |-> d[i].month, regular |-> d[i].regular,
                              income |-> d[i].income, transfers |-> d[i].transfers,
                              net |-> d[i].net, transaction_count |-> d[i].count]]

\* DataService._calculate_monthly_trends
calculate_monthly_trends(ts) ==
    IF ts = <<>> THEN <<>>
    ELSE LET sorted == SortedByMonth(MonthlyData(ts))
         IN  [i \in 1..Len(sorted) |->
                 [month |-> sorted[i].month, regular |-> sorted[i].regular,
                  income |-> sorted[i].income, transfers |-> sorted[i].transfers,
                  net |-> sorted[i].net, transaction_count |-> sorted[i].count]]

\* Mutant of SortedByAmountDesc: an ascending sort reversed, which lists
\* entries of equal amount last-seen first.
RECURSIVE SortedByAmountDescTiesReversed(_)
SortedByAmountDescTiesReversed(xs) ==
    IF xs = <<>> THEN <<>>
    ELSE LET prev == SortedByAmountDescTiesReversed(Front(xs))
             x == xs[Len(xs)]
             k == Cardinality({i \in 1..Len(prev) : prev[i].amount > x.amount})
         IN  SubSeq(prev, 1, k) \o <<x>> \o SubSeq(prev, k + 1, Len(prev))

\* sorted(xs, key=lambda x: x["amount"], reverse=True): descending by amount,
\* entries of equal amount keep their order.
RECURSIVE SortedByAmountDesc(_)
SortedByAmountDesc(xs) ==
    IF xs = <<>> THEN <<>>
    ELSE LET prev == SortedByAmountDesc(Front(xs))
             x == xs[Len(xs)]
             k == Cardinality({i \in 1..Len(prev) : prev[i].amount >= x.amount})
         IN  SubSeq(prev, 1, k) \o <<x>> \o SubSeq(prev, k + 1, Len(prev))

\* The grouping loop of _calculate_top_merchants: merchant_data.
RECURSIVE MerchantData(_)
MerchantData(ts) ==
    IF ts = <<>> THEN <<>>
    ELSE LET prev == MerchantData(Front(ts))
             t == ts[Len(ts)]
             merchant == IF t.merchant # NoMerchant THEN t.merchant ELSE "Unknown"
             d == IF \E i \in 1..Len(prev) : prev[i].merchant = merchant
                  THEN prev
                  ELSE Append(prev, [merchant |-> merchant, amount |-> 0, count |-> 0])
             k == CHOOSE i \in 1..Len(d) : d[i].merchant = merchant
         IN  [d EXCEPT ![k] = [merchant |-> merchant, amount |-> d[k].amount + t.amount,
                               count |-> d[k].count + 1]]

\* The default of the limit parameter of _calculate_top_merchants.
DefaultLimit == 10

\* xs[:n]
Take(xs, n) == SubSeq(xs, 1, IF n < Len(xs) THEN n ELSE Len(xs))

\* Mutant of calculate_top_merchants: every transaction type is counted.
calculate_top_merchants_all_types(ts, limit) ==
    IF ts = <<>> THEN <<>>
    ELSE Take(SortedByAmountDesc(MerchantData(ts)), limit)

\* DataService._calculate_top_merchants
calculate_top_merchants(ts, limit) ==
    IF ts = <<>> THEN <<>>
    ELSE Take(SortedByAmountDesc(MerchantData(OfType(ts, REGULAR))), limit)

\* min() and max() of a non-empty list of dates
MinDate(ts) == LET i == CHOOSE i \in 1..Len(ts) : \A j \in 1..Len(ts) : DateLE(ts[i].date, ts[j].date)
               IN  ts[i].date
MaxDate(ts) == LET i == CHOOSE i \in 1..Len(ts) : \A j \in 1..Len(ts) : DateLE(ts[j].date, ts[i].date)
               IN  ts[i].date

\* date.toordinal(): days since 0001-01-01, plus one
IsLeap(y) == y % 4 = 0 /\ (y % 100 # 0 \/ y % 400 = 0)
DaysInMonth(y, m) ==
    IF m = 2 THEN (IF IsLeap(y) THEN 29 ELSE 28)
    ELSE IF m \in {4, 6, 9, 11} THEN 30 ELSE 31
RECURSIVE DaysBeforeMonth(_, _)
DaysBeforeMonth(y, m) == IF m = 1 THEN 0 ELSE DaysBeforeMonth(y, m - 1) + DaysInMonth(y, m - 1)
Ordinal(d) ==
    LET y == d.year - 1
    IN  y * 365 + (y \div 4) - (y \div 100) + (y \div 400) + DaysBeforeMonth(d.year, d.month) + d.day

\* The computation of _calculate_spending_velocity over a non-empty list of
\* regular transactions; total / (days / 7) is 7 * total / days.
Velocity(regular_transactions) ==
    LET total_days == Ordinal(MaxDate(regular_transactions)) - Ordinal(MinDate(regular_transactions)) + 1
        total_amount == SumAmount(regular_transactions)
    IN  [daily |-> IF total_days > 0 THEN Div(total_amount, total_days) ELSE Num(0),
         weekly |-> IF total_days > 0 THEN Div(total_amount * 7, total_days) ELSE Num(0),
         monthly |-> IF total_days > 0 THEN Div(total_amount * 30, total_days) ELSE Num(0)]

ZeroVelocity == [daily |-> Num(0), weekly |-> Num(0), monthly |-> Num(0)]

\* Mutant of calculate_spending_velocity: the two empty-list guards are
\* missing and min() of an empty list raises.
calculate_spending_velocity_unguarded(ts) ==
    IF OfType(ts, REGULAR) = <<>> THEN [error |-> "ValueError"]
    ELSE Velocity(OfType(ts, REGULAR))

\* Mutant of calculate_spending_velocity: the span and the total are taken
\* over the transactions of every type.
calculate_spending_velocity_all_types(ts) ==
    IF ts = <<>> THEN ZeroVelocity
    ELSE Velocity(ts)

\* DataService._calculate_spending_velocity
calculate_spending_velocity(ts) ==
    IF ts = <<>> THEN ZeroVelocity
    ELSE IF OfType(ts, REGULAR) = <<>> THEN ZeroVelocity
    ELSE Velocity(OfType(ts, REGULAR))

\* sum(t.absolute_amount for t in ts)
SumAbsoluteAmount(ts) == Sum([i \in 1..Len(ts) |-> AbsoluteAmount(ts[i])])

\* Mutant of AverageAmount: the signed amount is averaged.
AverageAmountSigned(ts) == IF Len(ts) > 0 THEN Div(SumAmount(ts), Len(ts)) ELSE Num(0)

\* The average_amount expression of get_transaction_summary.
AverageAmount(ts) == IF Len(ts) > 0 THEN Div(SumAbsoluteAmount(ts), Len(ts)) ELSE Num(0)

\* The net_amount expression of get_transaction_summary.
NetAmount(total_regular, total_income) == total_regular - total_income

\* DataService.get_transaction_summary: the value returned.
get_transaction_summary(rows, filters) ==
    LET ts == get_transactions(rows, filters)
        regular_transactions == OfType(ts, REGULAR)
        income_transactions == OfType(ts, INCOME)
        transfer_transactions == OfType(ts, INTERNAL_TRANSFER)
        total_regular == SumAmount(regular_transactions)
        total_income == SumAmount(income_transactions)
    IN  IF ts = <<>>
        THEN [total_regular_amount |-> 0, total_income_amount |-> 0, net_amount |-> 0,
              transaction_count |-> 0, regular_count |-> 0, income_count |-> 0,
              transfer_count |-> 0, average_amount |-> Num(0),
              category_breakdown |-> <<>>, monthly_trends |-> <<>>, top_merchants |-> <<>>,
              spending_velocity |-> [daily |-> Num(0), weekly |-> Num(0), monthly |-> Num(0)]]
        ELSE [total_regular_amount |-> total_regular, total_income_amount |-> total_income,
              net_amount |-> NetAmount(total_regular, total_income),
              transaction_count |-> Len(ts),
              regular_count |-> Len(regular_transactions),
              income_count |-> Len(income_transactions),
              transfer_count |-> Len(transfer_transactions),
              average_amount |-> AverageAmount(ts),
              category_breakdown |-> CategoryBreakdown(ts),
              monthly_trends |-> calculate_monthly_trends(ts),
              top_merchants |-> calculate_top_merchants(ts, DefaultLimit),
              spending_velocity |-> calculate_spending_velocity(ts)]

\* target_tag.lower() in [tag.lower() for tag in t.tags]
HasTag(t, target_tag) ==
    InList(Lower(target_tag), [i \in 1..Len(t.tags) |-> Lower(t.tags[i])])

\* [t for t in ts if tag.lower() in [x.lower() for x in t.tags]]
Tagged(ts, target_tag) ==
    LET Has(t) == HasTag(t, target_tag)
    IN  SelectSeq(ts, Has)

\* [t for t in ts if t.category == category]
InCategory(ts, category) ==
    LET Is(t) == t.category = category
    IN  SelectSeq(ts, Is)

\* The keys of a dict filled from the list xs, in insertion order.
RECURSIVE Keys(_)
Keys(xs) ==
    IF xs = <<>> THEN <<>>
    ELSE LET prev == Keys(Front(xs))
         IN  IF InList(xs[Len(xs)], prev) THEN prev ELSE Append(prev, xs[Len(xs)])

\* The category_groups loop of calculate_category_tag_overlap: the categories
\* of the tagged transactions in first-seen order, each with its transactions.
CategoryGroups(tagged) ==
    LET cats == Keys([i \in 1..Len(tagged) |-> tagged[i].category])
    IN  [i \in 1..Len(cats) |-> [category |-> cats[i], transactions |-> InCategory(tagged, cats[i])]]

\* (category_amount / total_tagged_amount) * 100
Percentage(category_amount, total_tagged_amount) == Div(category_amount * 100, total_tagged_amount)

\* The entry of the "transactions" list of a Venn set.
VennTransaction(t) ==
    [id |-> t.id, description |-> t.description, amount |-> t.amount, date |-> t.date,
     merchant |-> t.merchant]

\* DataService.calculate_category_tag_overlap: the value returned, or the
\* error raised by the division when the tagged amounts sum to zero.
calculate_category_tag_overlap(rows, target_tag, filters) ==
    LET ts == get_transactions(rows, filters)
        tagged_transactions == Tagged(ts, target_tag)
        total_tagged_amount == SumAmount(tagged_transactions)
        category_groups == CategoryGroups(tagged_transactions)
        category_overlaps ==
            [i \in 1..Len(category_groups) |->
                LET g == category_groups[i]
                IN  [category |-> g.category,
                     amount |-> SumAmount(g.transactions),
                     transaction_count |-> Len(g.transactions),
                     percentage_of_tag |-> Percentage(SumAmount(g.transactions), total_tagged_amount)]]
        venn_data ==
            [i \in 1..Len(category_groups) |->
                LET g == category_groups[i]
                IN  [category |-> g.category,
                     tag |-> target_tag,
                     amount |-> SumAmount(g.transactions),
                     transaction_count |-> Len(g.transactions),
                     percentage |-> Percentage(SumAmount(g.transactions), total_tagged_amount),
                     transactions |-> [j \in 1..Len(g.transactions) |-> VennTransaction(g.transactions[j])]]]
    IN  IF tagged_transactions = <<>>
        THEN [target_tag |-> target_tag, total_tagged_amount |-> 0,
              category_overlaps |-> <<>>, venn_data |-> <<>>]
        ELSE IF total_tagged_amount = 0
        THEN [error |-> "ZeroDivisionError"]
        ELSE [target_tag |-> target_tag,
              total_tagged_amount |-> total_tagged_amount,
              total_tagged_transactions |-> Len(tagged_transactions),
              category_overlaps |-> category_overlaps,
              venn_data |-> SortedByAmountDesc(venn_data)]

\* Mutant of Intersection: the intersection of the two lists as sets of
\* values, in which records equal in every field are one element.
IntersectionOfValueSets(tag_transactions, category_transactions) ==
    LET In(t) == InList(t, category_transactions)
    IN  Keys(SelectSeq(tag_transactions, In))

\* [t for t in tag_transactions if t in category_transactions]
Intersection(tag_transactions, category_transactions) ==
    LET In(t) == InList(t, category_transactions)
    IN  SelectSeq(tag_transactions, In)

\* The two nested loops of calculate_multi_tag_category_overlap over
\* tag_sets.items() and category_sets.items(): the pairs in iteration order.
Pairs(tag_keys, category_keys) ==
    [n \in 1..(Len(tag_keys) * Len(category_keys)) |->
        <<tag_keys[((n - 1) \div Len(category_keys)) + 1],
          category_keys[((n - 1) % Len(category_keys)) + 1]>>]

\* DataService.calculate_multi_tag_category_overlap: the value returned.
calculate_multi_tag_category_overlap(rows, tags, cats, filters) ==
    LET ts == get_transactions(rows, filters)
        pairs == Pairs(Keys(tags), Keys(cats))
        NonEmpty(p) == Intersection(Tagged(ts, p[1]), InCategory(ts, p[2])) # <<>>
        kept == SelectSeq(pairs, NonEmpty)
        overlaps ==
            [i \in 1..Len(kept) |->
                LET intersection == Intersection(Tagged(ts, kept[i][1]), InCategory(ts, kept[i][2]))
                IN  [tag |-> kept[i][1], category |-> kept[i][2],
                     amount |-> SumAmount(intersection),
                     transaction_count |-> Len(intersection),
                     transactions |-> intersection]]
    IN  [tags |-> tags, categories |-> cats,
         overlaps |-> SortedByAmountDesc(overlaps),
         total_analyzed_transactions |-> Len(ts)]

\* The (transaction, tag) pairs the nested loops of get_available_tags visit,
\* in order.
RECURSIVE TagOccurrences(_)
TagOccurrences(ts) ==
    IF ts = <<>> THEN <<>>
    ELSE LET t == ts[Len(ts)]
         IN  TagOccurrences(Front(ts)) \o [i \in 1..Len(t.tags) |-> [tag |-> t.tags[i], t |-> t]]

\* The tag_stats loop of get_available_tags.
RECURSIVE TagStats(_)
TagStats(occ) ==
    IF occ = <<>> THEN <<>>
    ELSE LET prev == TagStats(Front(occ))
             o == occ[Len(occ)]
             d == IF \E i \in 1..Len(prev) : prev[i].tag = o.tag
                  THEN prev
                  ELSE Append(prev, [tag |-> o.tag, transaction_count |-> 0,
                                     total_amount |-> 0, categories |-> {}])
             k == CHOOSE i \in 1..Len(d) : d[i].tag = o.tag
         IN  [d EXCEPT ![k] = [tag |-> o.tag,
                               transaction_count |-> d[k].transaction_count + 1,
                               total_amount |-> d[k].total_amount + o.t.amount,
                               categories |-> d[k].categories \cup {o.t.category}]]

\* available_tags.sort(key=lambda x: x["total_amount"], reverse=True)
RECURSIVE SortedByTotalAmountDesc(_)
SortedByTotalAmountDesc(xs) ==
    IF xs = <<>> THEN <<>>
    ELSE LET prev == SortedByTotalAmountDesc(Front(xs))
             x == xs[Len(xs)]
             k == Cardinality({i \in 1..Len(prev) : prev[i].total_amount >= x.total_amount})
         IN  SubSeq(prev, 1, k) \o <<x>> \o SubSeq(prev, k + 1, Len(prev))

\* DataService.get_available_tags: the value returned.  "categories" is the
\* list of a set, whose order is not determined: it is kept as the set.
get_available_tags(rows, filters) ==
    LET ts == get_transactions(rows, filters)
        tag_stats == TagStats(TagOccurrences(ts))
        available_tags ==
            [i \in 1..Len(tag_stats) |->
                [tag |-> tag_stats[i].tag,
                 transaction_count |-> tag_stats[i].transaction_count,
                 total_amount |-> tag_stats[i].total_amount,
                 category_count |-> Cardinality(tag_stats[i].categories),
                 categories |-> tag_stats[i].categories]]
    IN  [available_tags |-> SortedByTotalAmountDesc(available_tags),
         total_tags |-> Len(available_tags),
         total_transactions |-> Len(ts)]

\* Insight categories fixed by the code.
s_mba_total == <<"m", "b", "a", "_", "t", "o", "t", "a", "l">>
s_mba_trends == <<"m", "b", "a", "_", "t", "r", "e", "n", "d", "s">>

\* [tag.lower() for tag in transaction.tags if tag.lower() != "kellogg"]
NonKelloggTags(t) ==
    LET lowered == [i \in 1..Len(t.tags) |-> Lower(t.tags[i])]
        NotMarker(tag) == tag # s_kellogg
    IN  SelectSeq(lowered, NotMarker)

\* The loop of _group_mba_transactions_by_tags: groups, keyed by the first
\* non-Kellogg tag, without the transactions that have no other tag.
RECURSIVE TagGroups(_)
TagGroups(mba) ==
    IF mba = <<>> THEN <<>>
    ELSE LET prev == TagGroups(Front(mba))
             t == mba[Len(mba)]
             group_tag == NonKelloggTags(t)[1]
             d == IF \E i \in 1..Len(prev) : prev[i].name = group_tag
                  THEN prev
                  ELSE Append(prev, [name |-> group_tag, transactions |-> <<>>])
             k == CHOOSE i \in 1..Len(d) : d[i].name = group_tag
         IN  IF NonKelloggTags(t) = <<>> THEN prev
             ELSE [d EXCEPT ![k].transactions = Append(@, t)]

\* DataService._group_mba_transactions_by_tags
group_mba_transactions_by_tags(mba) ==
    LET NoOther(t) == NonKelloggTags(t) = <<>>
        general_activities == SelectSeq(mba, NoOther)
        groups == TagGroups(mba)
    IN  IF general_activities = <<>> THEN groups
        ELSE IF \E i \in 1..Len(groups) : groups[i].name = s_general
        THEN [i \in 1..Len(groups) |->
                 IF groups[i].name = s_general
                 THEN [name |-> s_general, transactions |-> general_activities]
                 ELSE groups[i]]
        ELSE Append(groups, [name |-> s_general, transactions |-> general_activities])

\* The priority rule of get_mba_insights; 1000 and 500 dollars in cents.
HighAmount == 100000
HighCount == 5
MediumAmount == 50000
MediumCount == 3

\* Mutant of Priority: the comparisons are not strict.
PriorityNotStrict(total_amount, count) ==
    IF total_amount >= HighAmount \/ count >= HighCount
        THEN [priority |-> "high", confidence |-> <<9, 10>>]
    ELSE IF total_amount >= MediumAmount \/ count >= MediumCount
        THEN [priority |-> "medium", confidence |-> <<8, 10>>]
    ELSE [priority |-> "low", confidence |-> <<7, 10>>]

Priority(total_amount, count) ==
    IF total_amount > HighAmount \/ count > HighCount
        THEN [priority |-> "high", confidence |-> <<9, 10>>]
    ELSE IF total_amount > MediumAmount \/ count > MediumCount
        THEN [priority |-> "medium", confidence |-> <<8, 10>>]
    ELSE [priority |-> "low", confidence |-> <<7, 10>>]

\* The insight get_mba_insights appends for one group.
GroupInsight(g) ==
    LET total_amount == SumAmount(g.transactions)
        p == Priority(total_amount, Len(g.transactions))
    IN  [category |-> g.name,
         data_support |-> [total_amount |-> total_amount,
                           avg_amount |-> Div(total_amount, Len(g.transactions)),
                           transaction_count |-> Len(g.transactions),
                           min_date |-> MinDate(g.transactions),
                           max_date |-> MaxDate(g.transactions)],
         confidence_score |-> p.confidence,
         priority |-> p.priority]

\* The monthly_mba loop of get_mba_insights.
RECURSIVE MonthlyMba(_)
MonthlyMba(mba) ==
    IF mba = <<>> THEN <<>>
    ELSE LET prev == MonthlyMba(Front(mba))
             t == mba[Len(mba)]
             month_key == MonthKey(t.date)
             d == IF \E i \in 1..Len(prev) : prev[i].month = month_key
                  THEN prev
                  ELSE Append(prev, [month |-> month_key, amount |-> 0])
             k == CHOOSE i \in 1..Len(d) : d[i].month = month_key
         IN  [d EXCEPT ![k].amount = @ + t.amount]

\* Mutant of MaxMonth: max() without the key function compares the month
\* keys and returns the latest month.
MaxMonthByKey(monthly) ==
    LET k == CHOOSE i \in 1..Len(monthly) :
                 \A j \in 1..Len(monthly) : ~StrLess(monthly[i].month, monthly[j].month)
    IN  monthly[k]

\* max(monthly_mba.items(), key=lambda x: x[1]): the first entry, in
\* insertion order, whose amount no entry exceeds.
MaxMonth(monthly) ==
    LET best == {i \in 1..Len(monthly) : \A j \in 1..Len(monthly) : monthly[j].amount <= monthly[i].amount}
        k == CHOOSE i \in best : \A j \in best : i <= j
    IN  monthly[k]

\* Mutant of get_general_insights: the tuition insight is appended without
\* the test for tuition transactions.
get_general_insights_unguarded(regular_transactions) ==
    LET tuition_transactions == InCategory(regular_transactions, "tuition")
    IN  << [category |-> s_tuition,
            data_support |-> [total_amount |-> SumAmount(tuition_transactions),
                              payment_count |-> Len(tuition_transactions)],
            confidence_score |-> <<9, 10>>,
            priority |-> "high"] >>

\* DataService._get_general_insights
get_general_insights(regular_transactions) ==
    LET tuition_transactions == InCategory(regular_transactions, "tuition")
    IN  IF tuition_transactions # <<>>
        THEN << [category |-> s_tuition,
                 data_support |-> [total_amount |-> SumAmount(tuition_transactions),
                                   payment_count |-> Len(tuition_transactions)],
                 confidence_score |-> <<9, 10>>,
                 priority |-> "high"] >>
        ELSE <<>>

\* DataService.get_mba_insights: the value returned.
get_mba_insights(rows) ==
    LET regular_transactions == OfType(LoadTransactionData(rows), REGULAR)
        mba_transactions == Tagged(regular_transactions, s_kellogg)
        headline == [category |-> s_mba_total,
                     data_support |-> [total_amount |-> SumAmount(mba_transactions),
                                       transaction_count |-> Len(mba_transactions)],
                     confidence_score |-> <<95, 100>>,
                     priority |-> "high"]
        mba_groups == group_mba_transactions_by_tags(mba_transactions)
        group_insights == [i \in 1..Len(mba_groups) |-> GroupInsight(mba_groups[i])]
        monthly_mba == MonthlyMba(mba_transactions)
        max_month == MaxMonth(monthly_mba)
        trend == [category |-> s_mba_trends,
                  data_support |-> [avg_monthly |-> Div(SumAmount(monthly_mba), Len(monthly_mba)),
                                    max_month |-> max_month.month,
                                    max_amount |-> max_month.amount],
                  confidence_score |-> <<8, 10>>,
                  priority |-> "medium"]
    IN  IF mba_transactions = <<>> THEN get_general_insights(regular_transactions)
        ELSE <<headline>> \o group_insights \o (IF Len(monthly_mba) > 1 THEN <<trend>> ELSE <<>>)

\* The unique_categories loop of get_categories.
RECURSIVE UniqueCategories(_)
UniqueCategories(ts) ==
    IF ts = <<>> THEN <<>>
    ELSE LET prev == UniqueCategories(Front(ts))
             t == ts[Len(ts)]
             d == IF \E i \in 1..Len(prev) : prev[i].category = t.category
                  THEN prev
                  ELSE Append(prev, [category |-> t.category, regular |-> 0,
                                     income |-> 0, transfers |-> 0, count |-> 0])
             k == CHOOSE i \in 1..Len(d) : d[i].category = t.category
             e == IF t.transaction_type = REGULAR
                      THEN [d[k] EXCEPT !.regular = @ + t.amount]
                  ELSE IF t.transaction_type = INCOME
                      THEN [d[k] EXCEPT !.income = @ + t.amount]
                  ELSE IF t.transaction_type = INTERNAL_TRANSFER
                      THEN [d[k] EXCEPT !.transfers = @ + t.amount]
                  ELSE d[k]
         IN  [d EXCEPT ![k] = [e EXCEPT !.count = @ + 1]]

\* DataService.get_categories: the value returned, one TransactionCategory
\* per category of the loaded data (name, total_amount, transaction_count;
\* the display fields are derived from the name and the position alone).
get_categories(rows) ==
    LET unique_categories == UniqueCategories(LoadTransactionData(rows))
    IN  [i \in 1..Len(unique_categories) |->
            [name |-> unique_categories[i].category,
             total_amount |-> unique_categories[i].regular - unique_categories[i].income,
             transaction_count |-> unique_categories[i].count]]

\* The number of recent transactions get_context_for_query hands over.
ContextWindow == 50

\* xs[-n:]
Last(xs, n) == SubSeq(xs, IF Len(xs) > n THEN Len(xs) - n + 1 ELSE 1, Len(xs))

\* DataService.get_context_for_query: the value returned.
get_context_for_query(rows, question) ==
    [transactions |-> Last(LoadTransactionData(rows), ContextWindow),
     summary |-> get_transaction_summary(rows, DefaultQuery),
     question |-> question]

----------------------------------------------------------------------------
\* Arguments the operations are called with.

\* Queries for the aggregates.
AggregateQueries ==
    { DefaultQuery,
      [DefaultQuery EXCEPT !.include_excluded = TRUE],
      [DefaultQuery EXCEPT !.categories = <<"none">>, !.include_excluded = TRUE] }

TargetTags == {s_trip, s_TRIP, s_kellogg, s_nonexistent}

TagLists == {<<s_trip>>, <<s_TRIP, s_kellogg>>}

CategoryLists == {<<"food">>, <<"transportation", "food">>}

Limits == {1, 2, DefaultLimit}

Questions == {"How much did I spend?"}

----------------------------------------------------------------------------
\* DataService.__init__ ; the CSV file holds any record list of at most
\* MaxLen rows.
Init ==
    /\ csv \in SeqsUpTo(MaxLen, FilterRows) \cup SeqsUpTo(MaxLen, SummaryRows)
                 \cup SeqsUpTo(MaxLen, OverlapRows)
    /\ transactions = <<>>
    /\ categories = <<>>
    /\ op = "idle"
    /\ args = <<>>
    /\ result = <<>>
    /\ served = FALSE

\* Mutant of GetTransactions: the service keeps the list it filtered in
\* self.transactions and later calls filter that list instead of loading.
GetTransactionsKeepsList ==
    \E filters \in Queries :
        /\ op = "idle"
        /\ op' = "get_transactions"
        /\ args' = [filters |-> filters]
        /\ result' = Filter(IF transactions # <<>> THEN transactions
                            ELSE LoadTransactionData(csv), filters)
        /\ transactions' = result'
        /\ UNCHANGED <<csv, categories, served>>

GetTransactions ==
    \E filters \in Queries :
        /\ op = "idle"
        /\ op' = "get_transactions"
        /\ args' = [filters |-> filters]
        /\ result' = get_transactions(csv, filters)
        /\ UNCHANGED <<csv, transactions, categories, served>>

GetTransactionSummary ==
    \E filters \in AggregateQueries :
        /\ op = "idle"
        /\ op' = "get_transaction_summary"
        /\ args' = [filters |-> filters]
        /\ result' = get_transaction_summary(csv, filters)
        /\ UNCHANGED <<csv, transactions, categories, served>>

CalculateMonthlyTrends ==
    \E filters \in AggregateQueries :
        /\ op = "idle"
        /\ op' = "_calculate_monthly_trends"
        /\ args' = [transactions |-> get_transactions(csv, filters)]
        /\ result' = calculate_monthly_trends(get_transactions(csv, filters))
        /\ UNCHANGED <<csv, transactions, categories, served>>

CalculateTopMerchants ==
    \E filters \in AggregateQueries, limit \in Limits :
        /\ op = "idle"
        /\ op' = "_calculate_top_merchants"
        /\ args' = [transactions |-> get_transactions(csv, filters), limit |-> limit]
        /\ result' = calculate_top_merchants(get_transactions(csv, filters), limit)
        /\ UNCHANGED <<csv, transactions, categories, served>>

CalculateSpendingVelocity ==
    \E filters \in AggregateQueries :
        /\ op = "idle"
        /\ op' = "_calculate_spending_velocity"
        /\ args' = [transactions |-> get_transactions(csv, filters)]
        /\ result' = calculate_spending_velocity(get_transactions(csv, filters))
        /\ UNCHANGED <<csv, transactions, categories, served>>

CalculateCategoryTagOverlap ==
    \E target_tag \in TargetTags, filters \in AggregateQueries :
        /\ op = "idle"
        /\ op' = "calculate_category_tag_overlap"
        /\ args' = [target_tag |-> target_tag, filters |-> filters]
        /\ result' = calculate_category_tag_overlap(csv, target_tag, filters)
        /\ UNCHANGED <<csv, transactions, categories, served>>

CalculateMultiTagCategoryOverlap ==
    \E tags \in TagLists, cats \in CategoryLists, filters \in AggregateQueries :
        /\ op = "idle"
        /\ op' = "calculate_multi_tag_category_overlap"
        /\ args' = [tags |-> tags, categories |-> cats, filters |-> filters]
        /\ result' = calculate_multi_tag_category_overlap(csv, tags, cats, filters)
        /\ UNCHANGED <<csv, transactions, categories, served>>

GetAvailableTags ==
    \E filters \in AggregateQueries :
        /\ op = "idle"
        /\ op' = "get_available_tags"
        /\ args' = [filters |-> filters]
        /\ result' = get_available_tags(csv, filters)
        /\ UNCHANGED <<csv, transactions, categories, served>>

\* Mutant of GetMbaInsights: the grouping strips the marker tag from the
\* records themselves.
GetMbaInsightsStripsMarker ==
    /\ op = "idle"
    /\ op' = "get_mba_insights"
    /\ args' = <<>>
    /\ result' = get_mba_insights(csv)
    /\ csv' = [i \in 1..Len(csv) |-> [csv[i] EXCEPT !.tags = NonKelloggTags(csv[i])]]
    /\ UNCHANGED <<transactions, categories, served>>

GetMbaInsights ==
    /\ op = "idle"
    /\ op' = "get_mba_insights"
    /\ args' = <<>>
    /\ result' = get_mba_insights(csv)
    /\ UNCHANGED <<csv, transactions, categories, served>>

GetCategories ==
    /\ op = "idle"
    /\ op' = "get_categories"
    /\ args' = <<>>
    /\ result' = get_categories(csv)
    /\ UNCHANGED <<csv, transactions, categories, served>>

GetContextForQuery ==
    \E question \in Questions :
        /\ op = "idle"
        /\ op' = "get_context_for_query"
        /\ args' = [question |-> question]
        /\ result' = get_context_for_query(csv, question)
        /\ UNCHANGED <<csv, transactions, categories, served>>

\* The endpoint hands the value to its caller and the service awaits the
\* next call.
Return ==
    /\ op # "idle"
    /\ op' = "idle"
    /\ args' = <<>>
    /\ result' = <<>>
    /\ served' = TRUE
    /\ UNCHANGED <<csv, transactions, categories>>

Next ==
    \/ GetTransactions
    \/ GetTransactionSummary
    \/ CalculateMonthlyTrends
    \/ CalculateTopMerchants
    \/ CalculateSpendingVelocity
    \/ CalculateCategoryTagOverlap
    \/ CalculateMultiTagCategoryOverlap
    \/ GetAvailableTags
    \/ GetMbaInsights
    \/ GetCategories
    \/ GetContextForQuery
    \/ Return

Spec == Init /\ [][Next]_vars

\* The same service over the files of one family of rows.
InitOver(rows) ==
    /\ csv \in SeqsUpTo(MaxLen, rows)
    /\ transactions = <<>>
    /\ categories = <<>>
    /\ op = "idle"
    /\ args = <<>>
    /\ result = <<>>
    /\ served = FALSE

InitFilter == InitOver(FilterRows)
InitSummary == InitOver(SummaryRows)
InitOverlap == InitOver(OverlapRows)

SpecFilter == InitFilter /\ [][Next]_vars
SpecSummary == InitSummary /\ [][Next]_vars
SpecOverlap == InitOverlap /\ [][Next]_vars

\* The same service over files of up to MbaLen marker-tagged rows.
InitMba ==
    /\ csv \in SeqsUpTo(MbaLen, MbaRows)
    /\ transactions = <<>>
    /\ categories = <<>>
    /\ op = "idle"
    /\ args = <<>>
    /\ result = <<>>
    /\ served = FALSE

SpecMba == InitMba /\ [][Next]_vars

----------------------------------------------------------------------------
\* Properties.

\* The sum of f over the index set S.
RECURSIVE SetSum(_, _)
SetSum(f, S) ==
    IF S = {} THEN 0
    ELSE LET x == CHOOSE x \in S : TRUE
         IN  f[x] + SetSum(f, S \ {x})

\* a is b with some elements left out.
RECURSIVE IsSubSequence(_, _)
IsSubSequence(a, b) ==
    IF a = <<>> THEN TRUE
    ELSE IF b = <<>> THEN FALSE
    ELSE IF Head(a) = Head(b) THEN IsSubSequence(Tail(a), Tail(b))
    ELSE IsSubSequence(a, Tail(b))

\* The sum of a list of quotients.
RECURSIVE QuotientSum(_)
QuotientSum(qs) ==
    IF qs = <<>> THEN <<0, 1>>
    ELSE LET r == QuotientSum(Tail(qs))
         IN  <<qs[1][1] * r[2] + r[1] * qs[1][2], qs[1][2] * r[2]>>

\* The quotient q is the number n.
QuotientIs(q, n) == q[2] # 0 /\ q[1] = n * q[2]

\* The list the last call filtered.
Filtered == get_transactions(csv, args.filters)

\* C1: filtering the result of get_transactions again with the same query
\* gives the same list, same records in the same order.
C1_FilterIdempotent ==
    op = "get_transactions" => Filter(result, args.filters) = result

\* A filter that kept some records and dropped others.
C1_Witness ==
    /\ op = "get_transactions"
    /\ result # <<>>
    /\ Len(result) < Len(LoadTransactionData(csv))

\* C2: for a non-empty filtered set the nets of the category breakdown sum to
\* the summary's net_amount.
C2_CategoryNetsSumToNet ==
    (op = "get_transaction_summary" /\ Filtered # <<>>) =>
        LET cb == result.category_breakdown
        IN  SetSum([i \in 1..Len(cb) |-> cb[i].net], 1..Len(cb)) = result.net_amount

\* A summary over several categories with income and a transfer.
C2_Witness ==
    /\ op = "get_transaction_summary"
    /\ Len(result.category_breakdown) >= 2
    /\ result.income_count > 0
    /\ result.transfer_count > 0
    /\ result.regular_count > 0

\* C3: for a tag no filtered transaction carries, the overlap has the keys of
\* the matching case, zero totals and empty overlaps and Venn list.
C3_NoMatchSameShape ==
    (op = "calculate_category_tag_overlap" /\ Tagged(Filtered, args.target_tag) = <<>>) =>
        /\ DOMAIN result = {"target_tag", "total_tagged_amount", "total_tagged_transactions",
                            "category_overlaps", "venn_data"}
        /\ result.target_tag = args.target_tag
        /\ result.total_tagged_amount = 0
        /\ result.total_tagged_transactions = 0
        /\ result.category_overlaps = <<>>
        /\ result.venn_data = <<>>

\* C4: on an empty filtered set every aggregate returns its zero form.
C4_EmptyZeroForms ==
    /\ (op = "get_transaction_summary" /\ Filtered = <<>>) =>
          /\ DOMAIN result = {"total_regular_amount", "total_income_amount", "net_amount",
                              "transaction_count", "regular_count", "income_count",
                              "transfer_count", "average_amount", "category_breakdown",
                              "monthly_trends", "top_merchants", "spending_velocity"}
          /\ result.total_regular_amount = 0
          /\ result.total_income_amount = 0
          /\ result.net_amount = 0
          /\ result.transaction_count = 0
          /\ result.regular_count = 0
          /\ result.income_count = 0
          /\ result.transfer_count = 0
          /\ QuotientIs(result.average_amount, 0)
          /\ result.category_breakdown = <<>>
          /\ result.monthly_trends = <<>>
          /\ result.top_merchants = <<>>
          /\ DOMAIN result.spending_velocity = {"daily", "weekly", "monthly"}
          /\ QuotientIs(result.spending_velocity.daily, 0)
          /\ QuotientIs(result.spending_velocity.weekly, 0)
          /\ QuotientIs(result.spending_velocity.monthly, 0)
    /\ (op = "_calculate_spending_velocity" /\ args.transactions = <<>>) =>
          /\ DOMAIN result = {"daily", "weekly", "monthly"}
          /\ QuotientIs(result.daily, 0)
          /\ QuotientIs(result.weekly, 0)
          /\ QuotientIs(result.monthly, 0)
    /\ (op = "_calculate_monthly_trends" /\ args.transactions = <<>>) => result = <<>>
    /\ (op = "_calculate_top_merchants" /\ args.transactions = <<>>) => result = <<>>
    /\ (op = "get_available_tags" /\ Filtered = <<>>) =>
          /\ "error" \notin DOMAIN result
          /\ result.available_tags = <<>>

\* A summary of a non-empty file whose records the query all filters out.
C4_Witness ==
    /\ op = "get_transaction_summary"
    /\ csv # <<>>
    /\ Filtered = <<>>

\* C5: for a non-empty filtered set average_amount is the sum of the absolute
\* amounts of all records divided by their number, and total_regular_amount
\* is the sum of the signed amounts of the REGULAR records.
C5_AverageAndRegularTotal ==
    (op = "get_transaction_summary" /\ Filtered # <<>>) =>
        LET ts == Filtered
            n == Len(ts)
        IN  /\ result.transaction_count = n
            /\ result.average_amount[2] # 0
            /\ result.average_amount[1] * n =
                   SetSum([i \in 1..n |-> Abs(ts[i].amount)], 1..n) * result.average_amount[2]
            /\ result.total_regular_amount =
                   SetSum([i \in 1..n |-> ts[i].amount],
                          {i \in 1..n : ts[i].transaction_type = REGULAR})

\* Two REGULAR records of 1500 and 90: total 1590, count 2, average 795.
C5_Witness ==
    /\ op = "get_transaction_summary"
    /\ Filtered \in {<<u4, u5>>, <<u5, u4>>}
    /\ result.total_regular_amount = 159000
    /\ result.transaction_count = 2
    /\ result.average_amount = <<79500, 1>>

\* C6: for a tag with at least one matching transaction there is one overlap
\* per distinct category of the tagged transactions, the amounts sum to
\* total_tagged_amount, the counts to total_tagged_transactions, each
\* percentage is 100 * amount / total_tagged_amount, and the percentages sum
\* to 100.
C6_OverlapPartition ==
    (op = "calculate_category_tag_overlap" /\ Tagged(Filtered, args.target_tag) # <<>>) =>
        /\ "error" \notin DOMAIN result
        /\ LET tagged == Tagged(Filtered, args.target_tag)
               co == result.category_overlaps
               n == Len(co)
           IN  /\ {co[i].category : i \in 1..n} = {tagged[i].category : i \in 1..Len(tagged)}
               /\ \A i, j \in 1..n : co[i].category = co[j].category => i = j
               /\ SetSum([i \in 1..n |-> co[i].amount], 1..n) = result.total_tagged_amount
               /\ SetSum([i \in 1..n |-> co[i].transaction_count], 1..n) =
                      result.total_tagged_transactions
               /\ \A i \in 1..n :
                      /\ co[i].percentage_of_tag[2] # 0
                      /\ co[i].percentage_of_tag[1] * result.total_tagged_amount =
                             100 * co[i].amount * co[i].percentage_of_tag[2]
               /\ QuotientIs(QuotientSum([i \in 1..n |-> co[i].percentage_of_tag]), 100)

\* The label under which _calculate_top_merchants counts a transaction.
MerchantLabel(t) == IF t.merchant = NoMerchant THEN "Unknown" ELSE t.merchant

\* C7: the top merchants are the REGULAR transactions grouped by merchant
\* ("Unknown" when absent), each entry with the sum of amounts and the number
\* of transactions, in non-increasing order of summed amount, cut to the
\* `limit` highest-ranked entries.
C7_TopMerchants ==
    op = "_calculate_top_merchants" =>
        LET ts == args.transactions
            reg == {i \in 1..Len(ts) : ts[i].transaction_type = REGULAR}
            labels == {MerchantLabel(ts[i]) : i \in reg}
            Of(m) == {i \in reg : MerchantLabel(ts[i]) = m}
            TotalOf(m) == SetSum([i \in 1..Len(ts) |-> ts[i].amount], Of(m))
            n == Len(result)
        IN  /\ n = IF args.limit < Cardinality(labels) THEN args.limit ELSE Cardinality(labels)
            /\ \A i \in 1..n :
                  /\ result[i].merchant \in labels
                  /\ result[i].amount = TotalOf(result[i].merchant)
                  /\ result[i].count = Cardinality(Of(result[i].merchant))
            /\ \A i, j \in 1..n : result[i].merchant = result[j].merchant => i = j
            /\ \A i, j \in 1..n : i < j => result[i].amount >= result[j].amount
            /\ \A m \in labels \ {result[i].merchant : i \in 1..n} :
                  \A i \in 1..n : TotalOf(m) <= result[i].amount

\* B with 10 seen first, then A with 30 and 20: [{A,50,2},{B,10,1}].
C7_Witness ==
    /\ op = "_calculate_top_merchants"
    /\ args.transactions = <<u12, u10, u11>>
    /\ args.limit = DefaultLimit
    /\ result = << [merchant |-> "A", amount |-> 5000, count |-> 2],
                   [merchant |-> "B", amount |-> 1000, count |-> 1] >>

\* The digit a character of a month key stands for.
DigitValue(c) == CHOOSE n \in 0..9 : Digit(n) = c

\* The <<year, month>> a YYYY-MM key names.
KeyMonth(k) ==
    << DigitValue(k[1]) * 1000 + DigitValue(k[2]) * 100 + DigitValue(k[3]) * 10 + DigitValue(k[4]),
       DigitValue(k[6]) * 10 + DigitValue(k[7]) >>

\* The calendar month <<year, month>> a is before b.
MonthBefore(a, b) == a[1] < b[1] \/ (a[1] = b[1] /\ a[2] < b[2])

\* C8: the monthly trends hold one entry per distinct calendar month of the
\* input, keyed YYYY-MM, in strictly ascending month order whatever the input
\* order; regular, income and transfers are the month's sums by type, net is
\* regular - income and transaction_count the number of the month's records.
C8_MonthlyTrends ==
    op = "_calculate_monthly_trends" =>
        LET ts == args.transactions
            MonthOf(i) == <<ts[i].date.year, ts[i].date.month>>
            months == {MonthOf(i) : i \in 1..Len(ts)}
            In(m, ty) == {i \in 1..Len(ts) : MonthOf(i) = m /\ ts[i].transaction_type = ty}
            TotalOf(m, ty) == SetSum([i \in 1..Len(ts) |-> ts[i].amount], In(m, ty))
            n == Len(result)
        IN  /\ n = Cardinality(months)
            /\ \A i \in 1..n :
                  /\ Len(result[i].month) = 7
                  /\ result[i].month[5] = "-"
                  /\ KeyMonth(result[i].month) \in months
            /\ \A i, j \in 1..n :
                  i < j => MonthBefore(KeyMonth(result[i].month), KeyMonth(result[j].month))
            /\ \A i \in 1..n :
                  LET m == KeyMonth(result[i].month)
                  IN  /\ result[i].regular = TotalOf(m, REGULAR)
                      /\ result[i].income = TotalOf(m, INCOME)
                      /\ result[i].transfers = TotalOf(m, INTERNAL_TRANSFER)
                      /\ result[i].net = result[i].regular - result[i].income
                      /\ result[i].transaction_count =
                             Cardinality({k \in 1..Len(ts) : MonthOf(k) = m})

\* Trends over an input whose later month comes first, with income in a month.
C8_Witness ==
    /\ op = "_calculate_monthly_trends"
    /\ Len(result) >= 2
    /\ \E i \in 1..Len(result) : result[i].income > 0 /\ result[i].regular # 0
    /\ LET ts == args.transactions
       IN  MonthBefore(<<ts[Len(ts)].date.year, ts[Len(ts)].date.month>>,
                       <<ts[1].date.year, ts[1].date.month>>)

\* C9: no call changes the record store: the decoded rows and the service's
\* own transaction list are the same after every step.
C9_StoreUnchanged ==
    [][csv' = csv /\ transactions' = transactions]_vars

\* A call that returned fewer records than the store holds.
C9_Witness ==
    /\ op = "get_transactions"
    /\ Len(csv) >= 2
    /\ Len(result) < Len(csv)

\* C10: the filter result is its input with some records left out: every
\* record of the result is in the input, none more often than there, and the
\* relative order is that of the input.
C10_SubSequence ==
    op = "get_transactions" => IsSubSequence(result, LoadTransactionData(csv))

\* A result of two records, with a dropped record before, between or after.
C10_Witness ==
    /\ op = "get_transactions"
    /\ Len(result) = 2
    /\ result[1] # result[2]
    /\ Len(csv) = 3

----------------------------------------------------------------------------
\* The records of the file that are not excluded.
Visible(rows) ==
    LET NotExcluded(t) == ~t.excluded
    IN  SelectSeq(rows, NotExcluded)

\* What the operation called last returns over the record list rows.
ResultOver(rows) ==
    CASE op = "get_transactions" -> get_transactions(rows, args.filters)
      [] op = "get_transaction_summary" -> get_transaction_summary(rows, args.filters)
      [] op = "get_categories" -> get_categories(rows)
      [] op = "get_available_tags" -> get_available_tags(rows, args.filters)
      [] op = "calculate_category_tag_overlap" ->
             calculate_category_tag_overlap(rows, args.target_tag, args.filters)
      [] op = "calculate_multi_tag_category_overlap" ->
             calculate_multi_tag_category_overlap(rows, args.tags, args.categories, args.filters)
      [] op = "get_mba_insights" -> get_mba_insights(rows)
      [] op = "get_context_for_query" -> get_context_for_query(rows, args.question)
      [] op = "_calculate_monthly_trends" -> calculate_monthly_trends(args.transactions)
      [] op = "_calculate_top_merchants" ->
             calculate_top_merchants(args.transactions, args.limit)
      [] op = "_calculate_spending_velocity" -> calculate_spending_velocity(args.transactions)

\* The operations that take a query apply the default view unless the query
\* sets include_excluded.
DefaultView == "filters" \in DOMAIN args => ~args.filters.include_excluded

\* C11: an excluded record does not contribute to a default view: it is not
\* in the list get_transactions returns, and the totals and counts of
\* get_transaction_summary, get_categories, get_available_tags, the two
\* overlaps, get_mba_insights and the summary of get_context_for_query are
\* those of the file without its excluded records.
C11_ExcludedContributesNothing ==
    /\ (op = "get_transactions" /\ DefaultView) =>
           \A i \in 1..Len(result) : ~result[i].excluded
    /\ (/\ op \in {"get_transactions", "get_transaction_summary", "get_categories",
                   "get_available_tags", "calculate_category_tag_overlap",
                   "calculate_multi_tag_category_overlap", "get_mba_insights"}
        /\ DefaultView
        /\ Visible(csv) # <<>>) =>
           result = ResultOver(Visible(csv))
    /\ (op = "get_context_for_query" /\ Visible(csv) # <<>>) =>
           result.summary = ResultOver(Visible(csv)).summary

\* C12: the category breakdown of a filtered record set has one entry per
\* category occurring in the set, with regular, income, transfers, net and
\* count, where count is the number of records of the set in that category
\* and the other fields are the sums over exactly those records.
C12_BreakdownWithCount ==
    (op = "get_transaction_summary" /\ Filtered # <<>>) =>
        LET ts == Filtered
            cb == result.category_breakdown
            Of(c) == {i \in 1..Len(ts) : ts[i].category = c}
            SumOf(c, ty) == SetSum([i \in 1..Len(ts) |-> ts[i].amount],
                                   {i \in Of(c) : ts[i].transaction_type = ty})
        IN  /\ {cb[k].category : k \in 1..Len(cb)} = {ts[i].category : i \in 1..Len(ts)}
            /\ \A j, k \in 1..Len(cb) : cb[j].category = cb[k].category => j = k
            /\ \A k \in 1..Len(cb) :
                  /\ DOMAIN cb[k] = {"category", "regular", "income", "transfers", "net", "count"}
                  /\ cb[k].regular = SumOf(cb[k].category, REGULAR)
                  /\ cb[k].income = SumOf(cb[k].category, INCOME)
                  /\ cb[k].transfers = SumOf(cb[k].category, INTERNAL_TRANSFER)
                  /\ cb[k].net = cb[k].regular - cb[k].income
                  /\ cb[k].count = Cardinality(Of(cb[k].category))

OccursIgnoringCase(sub, s) ==
    \E k \in 0..(Len(s) - Len(sub)) :
        \A i \in 1..Len(sub) : LowerChar(sub[i]) = LowerChar(s[k + i])

\* The record t satisfies every predicate of the query q other than the
\* amount bounds; a field left at None, or empty, is not supplied.
Satisfies(t, q) ==
    /\ ~q.include_excluded => ~t.excluded
    /\ q.start_date # <<>> => DateLE(q.start_date[1], t.date)
    /\ q.end_date # <<>> => DateLE(t.date, q.end_date[1])
    /\ q.categories # <<>> => \E i \in 1..Len(q.categories) : q.categories[i] = t.category
    /\ q.transaction_types # <<>> =>
           \E i \in 1..Len(q.transaction_types) : q.transaction_types[i] = t.transaction_type
    /\ q.search_text # <<>> => OccursIgnoringCase(q.search_text, t.description)
    /\ q.tags # <<>> =>
           \E i \in 1..Len(q.tags) : \E j \in 1..Len(t.tags) : q.tags[i] = t.tags[j]

\* C14: for a query without amount bounds get_transactions returns exactly
\* the loaded records that satisfy every supplied predicate, in their order,
\* and the query with no field and include_excluded set returns the loaded
\* records unchanged.
C14_ExactlyTheSatisfying ==
    (op = "get_transactions" /\ args.filters.min_amount = <<>> /\ args.filters.max_amount = <<>>) =>
        LET input == LoadTransactionData(csv)
            kept == {i \in 1..Len(input) : Satisfies(input[i], args.filters)}
        IN  /\ Len(result) = Cardinality(kept)
            /\ IsSubSequence(result, input)
            /\ \A i \in 1..Len(result) : Satisfies(result[i], args.filters)
            /\ \A i \in kept : \E j \in 1..Len(result) : result[j] = input[i]
            /\ args.filters = [DefaultQuery EXCEPT !.include_excluded = TRUE] => result = input

\* A search in other letter case than the descriptions that keeps some
\* records and drops others.
C14_Witness ==
    /\ op = "get_transactions"
    /\ args.filters.search_text = s_UNCH
    /\ result # <<>>
    /\ \E i \in 1..Len(result) : result[i].description = s_Lunch
    /\ Len(result) < Len(csv)

\* The record t satisfies the amount bounds the query q supplies, a bound of
\* 0 included.
WithinBounds(t, q) ==
    /\ q.min_amount # <<>> => q.min_amount[1] <= Abs(t.amount)
    /\ q.max_amount # <<>> => Abs(t.amount) <= q.max_amount[1]

\* C15: when the query supplies min_amount or max_amount, a bound of 0
\* included, every record of the result has min_amount <= |amount| <=
\* max_amount and every loaded record within the bounds that satisfies the
\* other predicates is in the result.
C15_AmountBounds ==
    (op = "get_transactions" /\ (args.filters.min_amount # <<>> \/ args.filters.max_amount # <<>>)) =>
        LET input == LoadTransactionData(csv)
        IN  /\ \A i \in 1..Len(result) : WithinBounds(result[i], args.filters)
            /\ \A i \in 1..Len(input) :
                   (Satisfies(input[i], args.filters) /\ WithinBounds(input[i], args.filters)) =>
                       \E j \in 1..Len(result) : result[j] = input[i]

\* The records of ts that are not internal transfers.
WithoutTransfers(ts) ==
    LET NotTransfer(t) == t.transaction_type # INTERNAL_TRANSFER
    IN  SelectSeq(ts, NotTransfer)

\* C16: net_amount is the sum of the REGULAR amounts minus the sum of the
\* INCOME amounts, and the net of every category and of every month that is
\* present without the INTERNAL_TRANSFER records is the same with them.
C16_TransfersLeaveNets ==
    (op = "get_transaction_summary" /\ Filtered # <<>>) =>
        LET ts == Filtered
            amount == [i \in 1..Len(ts) |-> ts[i].amount]
            Of(ty) == {i \in 1..Len(ts) : ts[i].transaction_type = ty}
            rest == WithoutTransfers(ts)
            cb == CategoryBreakdown(rest)
            mt == calculate_monthly_trends(rest)
        IN  /\ result.net_amount = SetSum(amount, Of(REGULAR)) - SetSum(amount, Of(INCOME))
            /\ rest # <<>> => result.net_amount = NetAmount(SumAmount(OfType(rest, REGULAR)),
                                                           SumAmount(OfType(rest, INCOME)))
            /\ \A k \in 1..Len(cb) :
                   \E j \in 1..Len(result.category_breakdown) :
                       /\ result.category_breakdown[j].category = cb[k].category
                       /\ result.category_breakdown[j].net = cb[k].net
            /\ \A k \in 1..Len(mt) :
                   \E j \in 1..Len(result.monthly_trends) :
                       /\ result.monthly_trends[j].month = mt[k].month
                       /\ result.monthly_trends[j].net = mt[k].net

\* A summary with a transfer in a category and a month that also hold a
\* regular record and an income record.
C16_Witness ==
    /\ op = "get_transaction_summary"
    /\ result.transfer_count > 0
    /\ \E j \in 1..Len(result.category_breakdown) :
           /\ result.category_breakdown[j].transfers > 0
           /\ result.category_breakdown[j].regular # 0
           /\ result.category_breakdown[j].income > 0
    /\ \E j \in 1..Len(result.monthly_trends) :
           /\ result.monthly_trends[j].transfers > 0
           /\ result.monthly_trends[j].regular # 0

\* C17: merchants of equal summed amount are listed in the order in which
\* they first appear among the REGULAR transactions, and of the merchants
\* tied at the cut of `limit` the ones seen first are kept.
C17_TiesFirstSeen ==
    op = "_calculate_top_merchants" =>
        LET ts == args.transactions
            reg == {i \in 1..Len(ts) : ts[i].transaction_type = REGULAR}
            labels == {MerchantLabel(ts[i]) : i \in reg}
            Of(m) == {i \in reg : MerchantLabel(ts[i]) = m}
            TotalOf(m) == SetSum([i \in 1..Len(ts) |-> ts[i].amount], Of(m))
            FirstSeen(m) == CHOOSE i \in Of(m) : \A j \in Of(m) : i <= j
            n == Len(result)
            listed == {result[i].merchant : i \in 1..n}
        IN  /\ listed \subseteq labels
            /\ \A i, j \in 1..n :
                   (i < j /\ result[i].amount = result[j].amount) =>
                       FirstSeen(result[i].merchant) < FirstSeen(result[j].merchant)
            /\ \A m \in labels \ listed :
                   \A i \in 1..n :
                       TotalOf(m) = result[i].amount =>
                           FirstSeen(result[i].merchant) < FirstSeen(m)

\* B with 60 is seen before A with 40 and 20: both sum to 60, B is listed
\* first, and alone when the limit is 1.
C17_Witness ==
    /\ op = "_calculate_top_merchants"
    /\ args.transactions = <<u2, u1, u11>>
    /\ \/ /\ args.limit = 2
          /\ result = << [merchant |-> "B", amount |-> 6000, count |-> 1],
                         [merchant |-> "A", amount |-> 6000, count |-> 2] >>
       \/ /\ args.limit = 1
          /\ result = << [merchant |-> "B", amount |-> 6000, count |-> 1] >>

\* C18: the spending velocity is computed from the REGULAR transactions
\* alone: with total_days the whole days from the earliest to the latest
\* REGULAR date plus one and total_amount the sum of the REGULAR amounts,
\* daily is total_amount / total_days, weekly total_amount / (total_days / 7)
\* and monthly total_amount / (total_days / 30); records of the other types
\* change nothing, and without a REGULAR record the result is all zero.
C18_SpendingVelocity ==
    op = "_calculate_spending_velocity" =>
        LET ts == args.transactions
            reg == {i \in 1..Len(ts) : ts[i].transaction_type = REGULAR}
            earliest == CHOOSE i \in reg : \A j \in reg : DateLE(ts[i].date, ts[j].date)
            latest == CHOOSE i \in reg : \A j \in reg : DateLE(ts[j].date, ts[i].date)
            total_days == Ordinal(ts[latest].date) - Ordinal(ts[earliest].date) + 1
            total_amount == SetSum([i \in 1..Len(ts) |-> ts[i].amount], reg)
        IN  /\ DOMAIN result = {"daily", "weekly", "monthly"}
            /\ reg = {} =>
                   /\ QuotientIs(result.daily, 0)
                   /\ QuotientIs(result.weekly, 0)
                   /\ QuotientIs(result.monthly, 0)
            /\ reg # {} =>
                   /\ total_days >= 1
                   /\ result.daily = Div(total_amount, total_days)
                   /\ result.weekly = Div(total_amount * 7, total_days)
                   /\ result.monthly = Div(total_amount * 30, total_days)
            /\ result = calculate_spending_velocity(OfType(ts, REGULAR))

\* 1500 on 15 August and 90 on 20 August, income on 30 September: 6 days,
\* 1590 in total, 265 a day, 1855 a week, 7950 a month.
C18_Witness ==
    /\ op = "_calculate_spending_velocity"
    /\ args.transactions = <<u4, u6, u5>>
    /\ result = [daily |-> <<26500, 1>>, weekly |-> <<185500, 1>>, monthly |-> <<795000, 1>>]

\* The record t carries the tag when letter case is ignored.
Carries(t, tag) ==
    \E j \in 1..Len(t.tags) :
        /\ Len(t.tags[j]) = Len(tag)
        /\ \A k \in 1..Len(tag) : LowerChar(t.tags[j][k]) = LowerChar(tag[k])

\* C19: calculate_category_tag_overlap selects exactly the filtered
\* transactions that carry the target tag, letter case ignored; its Venn list
\* is in non-increasing order of amount and has one set per category of the
\* selection, holding exactly the selected transactions of that category.
C19_SelectionAndVenn ==
    op = "calculate_category_tag_overlap" =>
        /\ "error" \notin DOMAIN result
        /\ LET ts == Filtered
               sel == {i \in 1..Len(ts) : Carries(ts[i], args.target_tag)}
               venn == result.venn_data
               n == Len(venn)
               Of(c) == {i \in sel : ts[i].category = c}
           IN  /\ {venn[k].category : k \in 1..n} = {ts[i].category : i \in sel}
               /\ \A j, k \in 1..n : venn[j].category = venn[k].category => j = k
               /\ \A j, k \in 1..n : j < k => venn[j].amount >= venn[k].amount
               /\ \A k \in 1..n :
                      /\ venn[k].transaction_count = Cardinality(Of(venn[k].category))
                      /\ venn[k].amount =
                             SetSum([i \in 1..Len(ts) |-> ts[i].amount], Of(venn[k].category))
                      /\ Len(venn[k].transactions) = Cardinality(Of(venn[k].category))
                      /\ \A i \in Of(venn[k].category) :
                             \E j \in 1..Len(venn[k].transactions) :
                                 venn[k].transactions[j] = VennTransaction(ts[i])
                      /\ \A j \in 1..Len(venn[k].transactions) :
                             \E i \in Of(venn[k].category) :
                                 venn[k].transactions[j] = VennTransaction(ts[i])

\* C20: calculate_multi_tag_category_overlap has one entry for each pair of a
\* requested tag and a requested category that some filtered record has
\* both, and no other; the entries are in non-increasing order of amount;
\* an entry's transactions are the filtered records that carry the tag,
\* letter case ignored, and have the category, each position of the record
\* list counted once, records equal in every field included.
C20_MultiOverlap ==
    op = "calculate_multi_tag_category_overlap" =>
        LET ts == Filtered
            ov == result.overlaps
            n == Len(ov)
            Of(tag, c) == {i \in 1..Len(ts) : Carries(ts[i], tag) /\ ts[i].category = c}
            requested == {<<args.tags[i], args.categories[j]>> :
                              i \in 1..Len(args.tags), j \in 1..Len(args.categories)}
        IN  /\ {<<ov[k].tag, ov[k].category>> : k \in 1..n} =
                   {p \in requested : Of(p[1], p[2]) # {}}
            /\ \A j, k \in 1..n :
                   (ov[j].tag = ov[k].tag /\ ov[j].category = ov[k].category) => j = k
            /\ \A j, k \in 1..n : j < k => ov[j].amount >= ov[k].amount
            /\ \A k \in 1..n :
                   LET members == Of(ov[k].tag, ov[k].category)
                   IN  /\ ov[k].transaction_count = Cardinality(members)
                       /\ ov[k].amount = SetSum([i \in 1..Len(ts) |-> ts[i].amount], members)
                       /\ Len(ov[k].transactions) = Cardinality(members)
                       /\ IsSubSequence(ov[k].transactions, ts)
                       /\ \A j \in 1..Len(ov[k].transactions) :
                              /\ Carries(ov[k].transactions[j], ov[k].tag)
                              /\ ov[k].transactions[j].category = ov[k].category

\* Two entries, one of them over two records equal in every field, asked
\* with the tag in another letter case.
C20_Witness ==
    /\ op = "calculate_multi_tag_category_overlap"
    /\ args.tags = <<s_TRIP, s_kellogg>>
    /\ Len(result.overlaps) >= 2
    /\ \E k \in 1..Len(result.overlaps) :
           /\ result.overlaps[k].tag = s_TRIP
           /\ result.overlaps[k].transaction_count = 2
           /\ result.overlaps[k].transactions[1] = result.overlaps[k].transactions[2]

\* C21: get_available_tags has one entry per distinct tag of the filtered
\* records; transaction_count is the number of records carrying the tag,
\* total_amount the sum of their amounts, categories the set of their
\* categories, category_count its size; the entries are in non-increasing
\* order of total_amount and total_tags is their number.
C21_TagCatalogue ==
    op = "get_available_tags" =>
        LET ts == Filtered
            at == result.available_tags
            n == Len(at)
            With(tag) == {i \in 1..Len(ts) : \E j \in 1..Len(ts[i].tags) : ts[i].tags[j] = tag}
        IN  /\ {at[k].tag : k \in 1..n} =
                   UNION {{ts[i].tags[j] : j \in 1..Len(ts[i].tags)} : i \in 1..Len(ts)}
            /\ \A j, k \in 1..n : at[j].tag = at[k].tag => j = k
            /\ \A j, k \in 1..n : j < k => at[j].total_amount >= at[k].total_amount
            /\ result.total_tags = n
            /\ \A k \in 1..n :
                   /\ at[k].transaction_count = Cardinality(With(at[k].tag))
                   /\ at[k].total_amount =
                          SetSum([i \in 1..Len(ts) |-> ts[i].amount], With(at[k].tag))
                   /\ at[k].categories = {ts[i].category : i \in With(at[k].tag)}
                   /\ at[k].category_count = Cardinality(at[k].categories)

\* The group insights of a result of get_mba_insights: the insights that
\* report an average.
GroupInsights ==
    {k \in 1..Len(result) : "avg_amount" \in DOMAIN result[k].data_support}

\* C22: a group insight is high with confidence 0.9 exactly when the group's
\* total exceeds 1000 or its count exceeds 5, else medium with confidence 0.8
\* exactly when the total exceeds 500 or the count exceeds 3, else low with
\* confidence 0.7.
C22_PriorityThresholds ==
    op = "get_mba_insights" =>
        \A k \in GroupInsights :
            LET total == result[k].data_support.total_amount
                count == result[k].data_support.transaction_count
                high == total > 100000 \/ count > 5
                medium == ~high /\ (total > 50000 \/ count > 3)
            IN  /\ result[k].priority \in {"high", "medium", "low"}
                /\ result[k].priority = "high" <=> high
                /\ result[k].priority = "medium" <=> medium
                /\ result[k].priority = "high" => result[k].confidence_score = <<9, 10>>
                /\ result[k].priority = "medium" => result[k].confidence_score = <<8, 10>>
                /\ result[k].priority = "low" => result[k].confidence_score = <<7, 10>>

\* A group of 5 transactions with a total of exactly 1000: medium.
C22_Witness ==
    /\ op = "get_mba_insights"
    /\ \E k \in GroupInsights :
           /\ result[k].data_support.total_amount = 100000
           /\ result[k].data_support.transaction_count = 5
           /\ result[k].priority = "medium"

\* The marker-tagged REGULAR transactions of the loaded data.
MarkerTagged ==
    LET Is(t) == t.transaction_type = REGULAR /\ Carries(t, s_kellogg)
    IN  SelectSeq(LoadTransactionData(csv), Is)

\* The group of a marker-tagged transaction: its first tag that is not the
\* marker, in lower case, or the catch-all group when it has no other tag.
GroupKey(t) ==
    LET others == {j \in 1..Len(t.tags) : Lower(t.tags[j]) # s_kellogg}
    IN  IF others = {} THEN s_general
        ELSE Lower(t.tags[CHOOSE j \in others : \A k \in others : j <= k])

\* C23: every marker-tagged REGULAR transaction is in the group keyed by its
\* first tag other than the marker, or in the catch-all group when it has no
\* other tag, and each group insight reports the total, the average, the
\* count and the earliest and latest date of the group's transactions.
C23_Grouping ==
    (op = "get_mba_insights" /\ MarkerTagged # <<>>) =>
        LET ts == MarkerTagged
            Members(key) == {i \in 1..Len(ts) : GroupKey(ts[i]) = key}
        IN  /\ {result[k].category : k \in GroupInsights} = {GroupKey(ts[i]) : i \in 1..Len(ts)}
            /\ \A j, k \in GroupInsights : result[j].category = result[k].category => j = k
            /\ \A k \in GroupInsights :
                   LET members == Members(result[k].category)
                       ds == result[k].data_support
                       total == SetSum([i \in 1..Len(ts) |-> ts[i].amount], members)
                   IN  /\ ds.transaction_count = Cardinality(members)
                       /\ ds.total_amount = total
                       /\ ds.avg_amount = Div(total, Cardinality(members))
                       /\ \E i \in members : ts[i].date = ds.min_date
                       /\ \E i \in members : ts[i].date = ds.max_date
                       /\ \A i \in members : DateLE(ds.min_date, ts[i].date)
                                             /\ DateLE(ts[i].date, ds.max_date)

\* The insights of a result of get_mba_insights in category mba_trends.
TrendInsights == {k \in 1..Len(result) : result[k].category = s_mba_trends}

\* C24: the monthly-trend insight is emitted exactly when the marker-tagged
\* REGULAR transactions fall in at least 2 calendar months; avg_monthly is
\* their total divided by the number of those months, and max_month is a
\* month whose total no other month exceeds, reported with that total.
C24_MonthlyTrend ==
    (op = "get_mba_insights" /\ MarkerTagged # <<>>) =>
        LET ts == MarkerTagged
            months == {<<ts[i].date.year, ts[i].date.month>> : i \in 1..Len(ts)}
            In(mo) == {i \in 1..Len(ts) : <<ts[i].date.year, ts[i].date.month>> = mo}
            TotalIn(mo) == SetSum([i \in 1..Len(ts) |-> ts[i].amount], In(mo))
            total == SetSum([i \in 1..Len(ts) |-> ts[i].amount], 1..Len(ts))
        IN  /\ Cardinality(TrendInsights) = IF Cardinality(months) >= 2 THEN 1 ELSE 0
            /\ \A k \in TrendInsights :
                   LET ds == result[k].data_support
                   IN  /\ ds.avg_monthly = Div(total, Cardinality(months))
                       /\ \E mo \in months :
                              /\ KeyMonth(ds.max_month) = mo
                              /\ ds.max_amount = TotalIn(mo)
                              /\ \A other \in months : TotalIn(other) <= TotalIn(mo)

\* Marker-tagged transactions in two months, where the month with the
\* largest total is not the month seen first.
C24_Witness ==
    /\ op = "get_mba_insights"
    /\ MarkerTagged # <<>>
    /\ \E k \in TrendInsights :
           /\ result[k].data_support.max_amount > 0
           /\ result[k].data_support.max_month # MonthKey(MarkerTagged[1].date)

\* C25: when no loaded record carries the marker tag, get_mba_insights
\* returns one insight over the REGULAR records of category "tuition", with
\* the sum of their amounts, if there is such a record, and the empty list
\* otherwise; no headline, group or trend insight is returned.
C25_GeneralInsights ==
    LET loaded == LoadTransactionData(csv)
        tuition == {i \in 1..Len(loaded) : /\ loaded[i].transaction_type = REGULAR
                                           /\ loaded[i].category = "tuition"}
    IN  (/\ op = "get_mba_insights"
         /\ \A i \in 1..Len(loaded) : ~Carries(loaded[i], s_kellogg)) =>
            /\ tuition = {} => result = <<>>
            /\ tuition # {} =>
                   /\ Len(result) = 1
                   /\ result[1].category = s_tuition
                   /\ result[1].data_support.total_amount =
                          SetSum([i \in 1..Len(loaded) |-> loaded[i].amount], tuition)
                   /\ result[1].data_support.payment_count = Cardinality(tuition)
            /\ GroupInsights = {}
            /\ TrendInsights = {}
            /\ \A k \in 1..Len(result) : result[k].category # s_mba_total

\* Two tuition payments of 1500 next to an income record: one insight with
\* a total of 3000.
C25_Witness ==
    /\ op = "get_mba_insights"
    /\ \E i \in 1..Len(csv) : csv[i].transaction_type = INCOME
    /\ Len(result) = 1
    /\ result[1].category = s_tuition
    /\ result[1].data_support.total_amount = 300000

\* The insights of a result of get_mba_insights in category mba_total.
HeadlineInsights == {k \in 1..Len(result) : result[k].category = s_mba_total}

\* C26: when a loaded record carries the marker tag, get_mba_insights returns
\* exactly one headline insight, first in the list, with the sum of the
\* amounts and the number of the REGULAR marker-tagged records; the INCOME
\* and INTERNAL_TRANSFER records change no insight.
C26_Headline ==
    LET loaded == LoadTransactionData(csv)
        marked == {i \in 1..Len(loaded) : /\ loaded[i].transaction_type = REGULAR
                                          /\ Carries(loaded[i], s_kellogg)}
        regular == OfType(loaded, REGULAR)
    IN  (/\ op = "get_mba_insights"
         /\ \E i \in 1..Len(loaded) : Carries(loaded[i], s_kellogg)) =>
            /\ HeadlineInsights = {1}
            /\ result[1].data_support.total_amount =
                   SetSum([i \in 1..Len(loaded) |-> loaded[i].amount], marked)
            /\ result[1].data_support.transaction_count = Cardinality(marked)
            /\ regular # <<>> => result = get_mba_insights(regular)

\* C27: the group insights of get_mba_insights partition the marker-tagged
\* REGULAR transactions: the groups' transaction counts add up to the
\* headline's transaction count and the groups' totals to the headline's
\* total amount.
C27_GroupsPartition ==
    (op = "get_mba_insights" /\ MarkerTagged # <<>>) =>
        LET Support(k) == result[k].data_support
            counts == [k \in 1..Len(result) |->
                          IF k \in GroupInsights THEN Support(k).transaction_count ELSE 0]
            totals == [k \in 1..Len(result) |->
                          IF k \in GroupInsights THEN Support(k).total_amount ELSE 0]
        IN  /\ SetSum(counts, GroupInsights) = Support(1).transaction_count
            /\ SetSum(totals, GroupInsights) = Support(1).total_amount

\* C28: calculate_category_tag_overlap returns a result and raises no error
\* for every record set and every tag, also when the matching transactions'
\* signed amounts add up to zero.
C28_OverlapNeverRaises ==
    op = "calculate_category_tag_overlap" => "error" \notin DOMAIN result

\* C29: the tag catalogue and the tag overlap agree: for every entry of
\* get_available_tags, calculate_category_tag_overlap for the entry's tag
\* over the same records and filters reports the entry's transaction count
\* as total_tagged_transactions, its total amount as total_tagged_amount and
\* as many overlap categories as its category count.
C29_CatalogueAgreesWithOverlap ==
    op = "get_available_tags" =>
        \A k \in 1..Len(result.available_tags) :
            LET e == result.available_tags[k]
                overlap == calculate_category_tag_overlap(csv, e.tag, args.filters)
            IN  /\ "error" \notin DOMAIN overlap
                /\ "total_tagged_transactions" \in DOMAIN overlap
                /\ overlap.total_tagged_transactions = e.transaction_count
                /\ overlap.total_tagged_amount = e.total_amount
                /\ Len(overlap.category_overlaps) = e.category_count

\* C30: get_transaction_summary counts every filtered record exactly once:
\* transaction_count is the number of filtered records, it is the sum of
\* regular_count, income_count and transfer_count, and it is the sum of
\* transaction_count over the monthly_trends entries.
C30_CountedOnce ==
    op = "get_transaction_summary" =>
        LET trends == result.monthly_trends
        IN  /\ result.transaction_count = Len(Filtered)
            /\ result.transaction_count =
                   result.regular_count + result.income_count + result.transfer_count
            /\ result.transaction_count =
                   SetSum([k \in 1..Len(trends) |-> trends[k].transaction_count],
                          1..Len(trends))

\* A summary over records of all three types that fall in two months at
\* least.
C30_Witness ==
    /\ op = "get_transaction_summary"
    /\ result.regular_count >= 1
    /\ result.income_count >= 1
    /\ result.transfer_count >= 1
    /\ Len(result.monthly_trends) >= 2

====
